---- MODULE Spec2Model ----
(***************************************************************************)
(* Model of the automated content rewriting workflow:                      *)
(*   src/llm-rewriter.js            LLMRewriter (callLLM, delay)            *)
(*   src/scripts/content-validator.js                                      *)
(*        ContentValidator (lines 10-224), ContentProcessor (411-691)      *)
(*                                                                         *)
(* Text is modelled as a sequence of lexemes.  A lexeme is a TLA+ string   *)
(* standing for that very run of characters in the file ("{{<", "gist",    *)
(* "\n", "##", a word, a date, ...); the text is the concatenation of its  *)
(* lexemes.  Every regular expression of the source is translated to the   *)
(* scan it performs over the lexemes.  The lexemes are chosen so that no   *)
(* pattern of the source can match a proper part of one of them except     *)
(* where said.                                                             *)
(***************************************************************************)
EXTENDS Integers, Sequences, FiniteSets, TLC

----------------------------------------------------------------------------
(* Sequence helpers                                                        *)

Min(a, b) == IF a <= b THEN a ELSE b

\* s.substring(a - 1, b - 1) in 1-based, half-open [a, b) terms
Sub(s, a, b) == IF b <= a THEN << >> ELSE SubSeq(s, a, b - 1)

\* JavaScript \s restricted to the whitespace lexemes of the model
IsWs(t) == t \in {" ", "\n"}

\* lexemes made only of '#' characters (one to six of them)
IsHashes(t) == t \in {"#", "##", "###"}

\* the lexemes matching \d{4}-\d{2}-\d{2} exactly
IsDate(t) == t \in {"2024-01-15", "2026-11-04"}

\* first index >= from at which s holds a lexeme satisfying / not satisfying
\* whitespace; Len(s) + 1 when there is none
RECURSIVE SkipWs(_, _)
SkipWs(s, from) ==
    IF from > Len(s) THEN Len(s) + 1
    ELSE IF IsWs(s[from]) THEN SkipWs(s, from + 1) ELSE from

RECURSIVE SkipWsBack(_, _)
SkipWsBack(s, to) ==
    IF to < 1 THEN 0
    ELSE IF IsWs(s[to]) THEN SkipWsBack(s, to - 1) ELSE to

\* String.prototype.trim
Trim(s) ==
    LET a == SkipWs(s, 1)
        b == SkipWsBack(s, Len(s))
    IN  IF a > b THEN << >> ELSE SubSeq(s, a, b)

\* first index >= from with s[i] = t; 0 when there is none
RECURSIVE Find(_, _, _)
Find(s, t, from) ==
    IF from > Len(s) THEN 0
    ELSE IF s[from] = t THEN from ELSE Find(s, t, from + 1)

\* pat occurs in s at index i
OccursAt(s, pat, i) ==
    /\ i >= 1
    /\ i + Len(pat) - 1 <= Len(s)
    /\ \A j \in 1..Len(pat) : s[i + j - 1] = pat[j]

\* String.prototype.indexOf(pat, from): 0 when pat does not occur
RECURSIVE IndexOf(_, _, _)
IndexOf(s, pat, from) ==
    IF from + Len(pat) - 1 > Len(s) THEN 0
    ELSE IF OccursAt(s, pat, from) THEN from ELSE IndexOf(s, pat, from + 1)

\* String.prototype.includes
Includes(s, pat) == IndexOf(s, pat, 1) # 0

\* number of lexemes of s equal to t
RECURSIVE Count(_, _)
Count(s, t) ==
    IF s = << >> THEN 0
    ELSE (IF Head(s) = t THEN 1 ELSE 0) + Count(Tail(s), t)

\* the replacement patterns of String.prototype.replace(string, string):
\* "$&" in the replacement stands for the matched text
RECURSIVE Expand(_, _)
Expand(rep, matched) ==
    IF rep = << >> THEN << >>
    ELSE (IF Head(rep) = "$&" THEN matched ELSE <<Head(rep)>>)
         \o Expand(Tail(rep), matched)

\* s.replace(pat, rep) with a string pattern: the first occurrence only
ReplaceFirst(s, pat, rep) ==
    LET i == IndexOf(s, pat, 1)
    IN  IF i = 0 THEN s
        ELSE Sub(s, 1, i) \o Expand(rep, pat) \o Sub(s, i + Len(pat), Len(s) + 1)

----------------------------------------------------------------------------
(* ContentProcessor: parsing and span extraction                           *)

\* index of the "\n" that starts the closing "\n---\n" of the front matter,
\* for /^---\r?\n([\s\S]*?)\r?\n---\r?\n/ on text without "\r"; 0 = no match
FrontMatterEnd(text) ==
    IF Len(text) >= 2 /\ text[1] = "---" /\ text[2] = "\n"
    THEN IndexOf(text, <<"\n", "---", "\n">>, 3)
    ELSE 0

\* parseFrontMatter: frontMatterMatch is null
NoFrontMatter(text) == FrontMatterEnd(text) = 0

\* parseFrontMatter(...).frontMatter and .content (the body)
FrontMatterOf(text) == Sub(text, 3, FrontMatterEnd(text))
BodyOf(text) == Sub(text, FrontMatterEnd(text) + 3, Len(text) + 1)

\* frontMatter.match(/<name>:\s*"([^"]+)"/) is not null
QuotedFieldMatch(fm, name) ==
    \E i \in 1..Len(fm) :
        /\ fm[i] = name
        /\ i + 1 <= Len(fm) /\ fm[i + 1] = ":"
        /\ LET q == SkipWs(fm, i + 2)
           IN  /\ q + 1 <= Len(fm)
               /\ fm[q] = "\""
               /\ fm[q + 1] # "\""
               /\ Find(fm, "\"", q + 1) # 0

\* index of the first match of /^## /m; 0 when there is none
RECURSIVE FirstHeading(_, _)
FirstHeading(body, from) ==
    IF from + 1 > Len(body) THEN 0
    ELSE IF /\ body[from] = "##"
            /\ (from = 1 \/ body[from - 1] = "\n")
            /\ body[from + 1] = " "
         THEN from
         ELSE FirstHeading(body, from + 1)

\* /\{\{<\s*gist/ matches at index i
GistOpensAt(s, i) ==
    /\ i >= 1 /\ i <= Len(s)
    /\ s[i] = "{{<"
    /\ LET g == SkipWs(s, i + 1) IN g <= Len(s) /\ s[g] = "gist"

\* index of the first match of /\{\{<\s*gist/ at or after from; 0 = none
RECURSIVE FirstGistOpen(_, _)
FirstGistOpen(s, from) ==
    IF from > Len(s) THEN 0
    ELSE IF GistOpensAt(s, from) THEN from ELSE FirstGistOpen(s, from + 1)

\* an extraction that ends the opening at the first heading whenever there
\* is one, also when a shortcode comes before it
extractOpeningParagraph_HeadingFirst(content) ==
    LET h == FirstHeading(content, 1)
        g == FirstGistOpen(content, 1)
        endPosition ==
            IF h # 0 THEN h
            ELSE IF g # 0 THEN g
            ELSE Len(content) + 1
    IN  Trim(Sub(content, 1, endPosition))

\* extractOpeningParagraph
extractOpeningParagraph(content) ==
    LET h == FirstHeading(content, 1)
        g == FirstGistOpen(content, 1)
        endPosition ==
            IF h # 0 /\ g # 0 THEN Min(h, g)
            ELSE IF h # 0 THEN h
            ELSE IF g # 0 THEN g
            ELSE Len(content) + 1
    IN  Trim(Sub(content, 1, endPosition))

\* the matches of /\{\{<\s*gist[\s\S]*?\>\}\}/g from index from on, in order,
\* each as <<first index, index after the last>>
RECURSIVE GistSpans(_, _)
GistSpans(s, from) ==
    LET o == FirstGistOpen(s, from)
    IN  IF o = 0 THEN << >>
        ELSE LET c == Find(s, ">}}", SkipWs(s, o + 1) + 1)
             IN  IF c = 0 THEN << >>
                 ELSE <<(<<o, c + 1>>)>> \o GistSpans(s, c + 1)

\* the matched texts themselves (String.prototype.match with the g flag)
GistTexts(s) ==
    LET sp == GistSpans(s, 1)
    IN  [n \in 1..Len(sp) |-> Sub(s, sp[n][1], sp[n][2])]

\* largest index in a..b holding "\n" (there is one at a)
RECURSIVE LastNewline(_, _, _)
LastNewline(s, a, b) ==
    IF b <= a THEN a
    ELSE IF s[b] = "\n" THEN b ELSE LastNewline(s, a, b - 1)

\* s.split(/\n\s*\n/)
RECURSIVE SplitParagraphs(_, _)
SplitParagraphs(s, from) ==
    LET n == Find(s, "\n", from)
    IN  IF n = 0 THEN <<s>>
        ELSE LET e == SkipWs(s, n)
                 l == LastNewline(s, n, e - 1)
             IN  IF l = n THEN SplitParagraphs(s, e)
                 ELSE <<Sub(s, 1, n)>>
                      \o SplitParagraphs(Sub(s, l + 1, Len(s) + 1), 1)

\* p.match(/^#+\s/)
StartsWithHeadingMarker(p) ==
    Len(p) >= 2 /\ IsHashes(p[1]) /\ IsWs(p[2])

\* .map(p => p.trim()).filter(p => p.length > 0 && !p.match(/^#+\s/))
RECURSIVE TrimAndFilter(_)
TrimAndFilter(ps) ==
    IF ps = << >> THEN << >>
    ELSE LET p == Trim(Head(ps))
         IN  (IF Len(p) > 0 /\ ~StartsWithHeadingMarker(p) THEN <<p>> ELSE << >>)
             \o TrimAndFilter(Tail(ps))

\* an extraction that takes the paragraphs after the first shortcode
extractClosingParagraphs_AfterFirst(content) ==
    LET gistMatches == GistSpans(content, 1)
    IN  IF Len(gistMatches) = 0 THEN << >>
        ELSE LET firstGist == gistMatches[1]
                 afterFirstGist == Sub(content, firstGist[2], Len(content) + 1)
             IN  TrimAndFilter(SplitParagraphs(afterFirstGist, 1))

\* an extraction that keeps the paragraphs beginning with a heading marker
extractClosingParagraphs_KeepHeadings(content) ==
    LET gistMatches == GistSpans(content, 1)
        KeepNonEmpty(p) == Len(Trim(p)) > 0
    IN  IF Len(gistMatches) = 0 THEN << >>
        ELSE LET lastGist == gistMatches[Len(gistMatches)]
                 afterLastGist == Sub(content, lastGist[2], Len(content) + 1)
                 ps == SelectSeq(SplitParagraphs(afterLastGist, 1), KeepNonEmpty)
             IN  [k \in 1..Len(ps) |-> Trim(ps[k])]

\* extractClosingParagraphs
extractClosingParagraphs(content) ==
    LET gistMatches == GistSpans(content, 1)
    IN  IF Len(gistMatches) = 0 THEN << >>
        ELSE LET lastGist == gistMatches[Len(gistMatches)]
                 afterLastGist == Sub(content, lastGist[2], Len(content) + 1)
             IN  TrimAndFilter(SplitParagraphs(afterLastGist, 1))

\* new Date().toISOString().split('T')[0]
Today == "2026-11-04"

\* index of the first match of /<name>:\s*\d{4}-\d{2}-\d{2}/ at or after from
RECURSIVE FirstFieldDate(_, _, _)
FirstFieldDate(fm, name, from) ==
    IF from + 1 > Len(fm) THEN 0
    ELSE IF /\ fm[from] = name
            /\ fm[from + 1] = ":"
            /\ LET d == SkipWs(fm, from + 2) IN d <= Len(fm) /\ IsDate(fm[d])
         THEN from
         ELSE FirstFieldDate(fm, name, from + 1)

\* updateLastMod
updateLastMod(frontMatter) ==
    IF Includes(frontMatter, <<"lastmod", ":">>)
    THEN LET i == FirstFieldDate(frontMatter, "lastmod", 1)
         IN  IF i = 0 THEN frontMatter
             ELSE LET d == SkipWs(frontMatter, i + 2)
                  IN  Sub(frontMatter, 1, i)
                      \o <<"lastmod", ":", " ", Today>>
                      \o Sub(frontMatter, d + 1, Len(frontMatter) + 1)
    ELSE LET i == FirstFieldDate(frontMatter, "date", 1)
         IN  IF i = 0 THEN frontMatter
             ELSE LET d == SkipWs(frontMatter, i + 2)
                  IN  Sub(frontMatter, 1, d + 1)
                      \o <<"\n", "lastmod", ":", " ", Today>>
                      \o Sub(frontMatter, d + 1, Len(frontMatter) + 1)

\* `---\n${updatedFrontMatter}\n---\n${newContent}`
Reassemble(frontMatter, newContent) ==
    <<"---", "\n">> \o updateLastMod(frontMatter) \o <<"\n", "---", "\n">> \o newContent

----------------------------------------------------------------------------
(* ContentValidator                                                        *)

\* Findings are <<message, detail>> pairs; errors and warnings are sequences
\* of them, in the order the validator pushes them.

requiredFields ==
    <<"title", "productname", "productkey", "platformkey", "date", "lastmod", "type">>

dateFields == <<"date", "lastmod">>

\* lines 26-30: a required field is present when the front matter includes
\* the text '<field>:'
RECURSIVE MissingFields(_, _)
MissingFields(fm, fields) ==
    IF fields = << >> THEN << >>
    ELSE (IF ~Includes(fm, <<Head(fields), ":">>)
          THEN <<(<<"Missing required field", Head(fields)>>)>>
          ELSE << >>)
         \o MissingFields(fm, Tail(fields))

\* a date field is looked up with /<field>:\s*(\d{4}-\d{2}-\d{2})/ and its
\* capture tested against /^\d{4}-\d{2}-\d{2}$/
RECURSIVE BadDates(_, _)
BadDates(fm, fields) ==
    IF fields = << >> THEN << >>
    ELSE LET i == FirstFieldDate(fm, Head(fields), 1)
         IN  (IF i # 0 /\ ~IsDate(fm[SkipWs(fm, i + 2)])
              THEN <<(<<"Invalid date format", Head(fields)>>)>>
              ELSE << >>)
             \o BadDates(fm, Tail(fields))

\* validateFrontMatter: the errors it pushes
validateFrontMatter(content) ==
    IF NoFrontMatter(content)
    THEN <<(<<"Missing or malformed front matter", "">>)>>
    ELSE MissingFields(FrontMatterOf(content), requiredFields)
         \o BadDates(FrontMatterOf(content), dateFields)

\* number of matches of /\]\(/g
RECURSIVE OpenParens(_, _)
OpenParens(s, from) ==
    IF from + 1 > Len(s) THEN 0
    ELSE (IF s[from] = "]" /\ s[from + 1] = "(" THEN 1 ELSE 0)
         + OpenParens(s, from + 1)

\* number of matches of /\)\s*[^(]/g
RECURSIVE CloseParens(_, _)
CloseParens(s, from) ==
    LET p == Find(s, ")", from)
    IN  IF p = 0 THEN 0
        ELSE LET e == SkipWs(s, p + 1)
             IN  IF e <= Len(s) /\ s[e] # "(" THEN 1 + CloseParens(s, e + 1)
                 ELSE IF e > p + 1 THEN 1 + CloseParens(s, e)
                 ELSE CloseParens(s, p + 1)

Abs(n) == IF n < 0 THEN 0 - n ELSE n

\* the code-fence marker, three backquotes (written with three tildes: a
\* string of this module cannot hold a backquote)
Fence == "~~~"

\* a validateMarkdownStructure for which unequal square brackets are no issue
MarkdownIssues_FenceOnly(content) ==
    IF Count(content, Fence) % 2 # 0
    THEN <<(<<"Unmatched code block markers", "">>)>> ELSE << >>

\* a validateMarkdownStructure that does not look at the code-fence markers
MarkdownIssues_BracketsOnly(content) ==
    IF Count(content, "[") # Count(content, "]")
    THEN <<(<<"Unmatched square brackets", "">>)>> ELSE << >>

\* validateMarkdownStructure: issues (pushed to errors) and its warnings
MarkdownIssues(content) ==
    (IF Count(content, "[") # Count(content, "]")
     THEN <<(<<"Unmatched square brackets", "">>)>> ELSE << >>)
    \o (IF Count(content, Fence) % 2 # 0
        THEN <<(<<"Unmatched code block markers", "">>)>> ELSE << >>)

MarkdownWarnings(content) ==
    IF Abs(OpenParens(content, 1) - CloseParens(content, 1)) > 1
    THEN <<(<<"Potential unmatched parentheses in links", "">>)>> ELSE << >>

\* the per-position comparison loop of validateGistPreservation
RECURSIVE GistDiffs(_, _, _)
GistDiffs(originalGists, newGists, i) ==
    IF i > Len(originalGists) THEN << >>
    ELSE (IF originalGists[i] # newGists[i]
          THEN <<(<<"Gist was modified", i>>)>> ELSE << >>)
         \o GistDiffs(originalGists, newGists, i + 1)

\* a validateGistPreservation that compares the number of gists only
validateGistPreservation_CountOnly(originalContent, newContent) ==
    IF Len(GistTexts(originalContent)) # Len(GistTexts(newContent))
    THEN <<(<<"Gist count mismatch", "">>)>>
    ELSE << >>

\* validateGistPreservation: the errors it pushes
validateGistPreservation(originalContent, newContent) ==
    LET originalGists == GistTexts(originalContent)
        newGists == GistTexts(newContent)
    IN  IF Len(originalGists) # Len(newGists)
        THEN <<(<<"Gist count mismatch", "">>)>>
        ELSE GistDiffs(originalGists, newGists, 1)

\* end of the line holding index i: index of the next "\n", or Len(s) + 1
LineEnd(s, i) ==
    LET n == Find(s, "\n", i) IN IF n = 0 THEN Len(s) + 1 ELSE n

\* largest index in a..b holding " "; 0 when there is none
RECURSIVE LastSpace(_, _, _)
LastSpace(s, a, b) ==
    IF b < a THEN 0
    ELSE IF s[b] = " " THEN b ELSE LastSpace(s, a, b - 1)

\* the matches of /^#{1,6}\s+.+$/gm from index from on, each with /^#+\s+/
\* removed (the heading texts that validateHeadingsPreservation compares)
RECURSIVE HeadingTexts(_, _)
HeadingTexts(s, from) ==
    IF from + 1 > Len(s) THEN << >>
    ELSE IF /\ IsHashes(s[from])
            /\ (from = 1 \/ s[from - 1] = "\n")
            /\ IsWs(s[from + 1])
         THEN LET e == SkipWs(s, from + 1)
              IN  IF e <= Len(s)
                  THEN <<Sub(s, e, LineEnd(s, e))>> \o HeadingTexts(s, LineEnd(s, e))
                  ELSE LET q == LastSpace(s, from + 2, Len(s))
                       IN  IF q = 0 THEN << >> ELSE <<(<< >>)>>
         ELSE HeadingTexts(s, from + 1)

\* validateHeadingsPreservation: the warnings it pushes
RECURSIVE HeadingDiffs(_, _, _)
HeadingDiffs(a, b, i) ==
    IF i > Min(Len(a), Len(b)) THEN << >>
    ELSE (IF a[i] # b[i] THEN <<(<<"Heading changed", i>>)>> ELSE << >>)
         \o HeadingDiffs(a, b, i + 1)

validateHeadingsPreservation(originalContent, newContent) ==
    LET originalHeadings == HeadingTexts(originalContent, 1)
        newHeadings == HeadingTexts(newContent, 1)
    IN  (IF Len(originalHeadings) # Len(newHeadings)
         THEN <<(<<"Heading count changed", "">>)>> ELSE << >>)
        \o HeadingDiffs(originalHeadings, newHeadings, 1)

\* number of matches of /\[([^\]]*)\]\([^)]+\)/g
RECURSIVE LinkCount(_, _)
LinkCount(s, from) ==
    LET p == Find(s, "[", from)
    IN  IF p = 0 THEN 0
        ELSE LET q == Find(s, "]", p + 1)
                 r == IF q = 0 THEN 0 ELSE Find(s, ")", q + 2)
             IN  IF q # 0 /\ q + 1 <= Len(s) /\ s[q + 1] = "(" /\ r > q + 2
                 THEN 1 + LinkCount(s, r + 1)
                 ELSE LinkCount(s, p + 1)

\* number of matches of /\{\{<\s*site\/baseurl\s*\>\}/g
RECURSIVE InternalLinkCount(_, _)
InternalLinkCount(s, from) ==
    LET o == Find(s, "{{<", from)
    IN  IF o = 0 THEN 0
        ELSE LET b == SkipWs(s, o + 1)
                 c == SkipWs(s, b + 1)
             IN  IF b <= Len(s) /\ s[b] = "site/baseurl" /\ c <= Len(s) /\ s[c] = ">}}"
                 THEN 1 + InternalLinkCount(s, c + 1)
                 ELSE InternalLinkCount(s, o + 1)

\* validateLinksPreservation: its warnings and its errors
LinkWarnings(originalContent, newContent) ==
    IF LinkCount(originalContent, 1) # LinkCount(newContent, 1)
    THEN <<(<<"Link count changed", "">>)>> ELSE << >>

\* a validateLinksPreservation that does not compare the internal links
LinkErrors_None(originalContent, newContent) == << >>

LinkErrors(originalContent, newContent) ==
    IF InternalLinkCount(originalContent, 1) # InternalLinkCount(newContent, 1)
    THEN <<(<<"Internal link count mismatch", "">>)>> ELSE << >>

\* String.prototype.length of the text
RECURSIVE CharLen(_)
CharLen(s) == IF s = << >> THEN 0 ELSE Len(Head(s)) + CharLen(Tail(s))

\* validateContentLength: ratio < 0.5, ratio > 2.0 with ratio = new / original
validateContentLength(originalContent, newContent) ==
    IF 2 * CharLen(newContent) < CharLen(originalContent)
    THEN <<(<<"Content significantly shortened", "">>)>>
    ELSE IF CharLen(newContent) > 2 * CharLen(originalContent)
    THEN <<(<<"Content significantly lengthened", "">>)>>
    ELSE << >>

\* a validateFile for which a changed link count is an error
ValidateContent_LinkCountFatal(content, originalContent) ==
    LET errors ==
            validateFrontMatter(content)
            \o MarkdownIssues(content)
            \o validateGistPreservation(originalContent, content)
            \o LinkErrors(originalContent, content)
            \o LinkWarnings(originalContent, content)
        warnings ==
            MarkdownWarnings(content)
            \o validateHeadingsPreservation(originalContent, content)
            \o validateContentLength(originalContent, content)
    IN  [valid |-> errors = << >>, errors |-> errors, warnings |-> warnings]

\* validateFile once the file was read: content is the file's text and
\* originalContent the text handed in (always non-empty here)
ValidateContent(content, originalContent) ==
    LET errors ==
            validateFrontMatter(content)
            \o MarkdownIssues(content)
            \o validateGistPreservation(originalContent, content)
            \o LinkErrors(originalContent, content)
        warnings ==
            MarkdownWarnings(content)
            \o validateHeadingsPreservation(originalContent, content)
            \o LinkWarnings(originalContent, content)
            \o validateContentLength(originalContent, content)
    IN  [valid |-> errors = << >>, errors |-> errors, warnings |-> warnings]

\* validateFile when fs.readFileSync throws
ValidateReadFailed ==
    [valid |-> FALSE,
     errors |-> <<(<<"Failed to validate file", "">>)>>,
     warnings |-> << >>]

----------------------------------------------------------------------------
(* Inputs: the documents a run may be handed, the replies of the service   *)

MetaLines ==
    <<"title", ":", " ", "\"", "Guide", "\"", "\n",
      "productname", ":", " ", "Total", "\n",
      "productkey", ":", " ", "total", "\n",
      "platformkey", ":", " ", "\"", "java", "\"", "\n",
      "date", ":", " ", "2024-01-15", "\n">>

\* a complete front matter, and ones lacking a field
FullMeta == MetaLines \o <<"lastmod", ":", " ", "2024-01-15", "\n", "type", ":", " ", "docs">>
NoTypeMeta == MetaLines \o <<"lastmod", ":", " ", "2024-01-15">>
NoPlatformMeta ==
    <<"title", ":", " ", "\"", "Guide", "\"", "\n",
      "date", ":", " ", "2024-01-15", "\n",
      "lastmod", ":", " ", "2024-01-15", "\n", "type", ":", " ", "docs">>

\* no title field; the field subtitle holds the text 'title: "Guide"'
\* ("subtitle" is written as the lexemes "sub" and "title")
SubtitleMeta ==
    <<"sub", "title", ":", " ", "\"", "Guide", "\"", "\n",
      "productname", ":", " ", "Total", "\n",
      "productkey", ":", " ", "total", "\n",
      "platformkey", ":", " ", "\"", "java", "\"", "\n",
      "date", ":", " ", "2024-01-15", "\n",
      "lastmod", ":", " ", "2024-01-15", "\n", "type", ":", " ", "docs">>

GistA == <<"{{<", " ", "gist", " ", "a", " ", ">}}">>

Doc(meta, body) == <<"---", "\n">> \o meta \o <<"\n", "---", "\n">> \o body

\* opening, heading, shortcode, one closing paragraph
ArticleBody ==
    <<"Intro", " ", "text", "\n", "\n", "##", " ", "Steps", "\n">> \o GistA
    \o <<"\n", "\n", "Closing", " ", "one", "\n">>

\* heading first (no opening), shortcode, two closing paragraphs
TwoClosingsBody ==
    <<"##", " ", "Steps", "\n">> \o GistA
    \o <<"\n", "\n", "Closing", " ", "one", "\n", "\n", "Closing", " ", "two">>

\* prose only: no heading, no shortcode
ProseBody == <<"Only", " ", "prose", "\n">>

\* nothing to rewrite: the body is one shortcode
BareBody == GistA \o <<"\n">>

\* the closing paragraph repeats the opening paragraph
EchoBody ==
    <<"Read", " ", "on", "\n", "\n">> \o GistA \o <<"\n", "\n", "Read", " ", "on", "\n">>

Docs ==
    { Doc(FullMeta, ArticleBody),
      Doc(FullMeta, TwoClosingsBody),
      Doc(FullMeta, ProseBody),
      Doc(FullMeta, BareBody),
      Doc(FullMeta, EchoBody),
      Doc(NoTypeMeta, ProseBody),
      Doc(NoPlatformMeta, ProseBody),
      Doc(SubtitleMeta, ProseBody),
      ArticleBody }

\* what the service may answer as choices[0].message.content
Responses ==
    { <<" ", "Fresh", " ", "words", "\n">>,
      <<"See", " ">> \o GistA,
      <<"{{<", "gist", " ", "b">>,
      <<"Read", " ", "[", "more", "]", "(", "url", ")">> }

\* the smaller inputs of the runs over several articles
RunDocs ==
    {Doc(FullMeta, ProseBody), Doc(FullMeta, BareBody), Doc(NoPlatformMeta, ProseBody),
     ArticleBody}
RunResponses == {<<" ", "Fresh", " ", "words", "\n">>, <<"See", " ">> \o GistA}

\* front matters whose date, or whose lastmod, is not written YYYY-MM-DD
BadDateMeta ==
    <<"title", ":", " ", "\"", "Guide", "\"", "\n",
      "productname", ":", " ", "Total", "\n",
      "productkey", ":", " ", "total", "\n",
      "platformkey", ":", " ", "\"", "java", "\"", "\n",
      "date", ":", " ", "15-01-2024", "\n",
      "lastmod", ":", " ", "2024-01-15", "\n", "type", ":", " ", "docs">>
BadLastmodMeta == MetaLines \o <<"lastmod", ":", " ", "2024/01/15", "\n", "type", ":", " ", "docs">>

\* a front matter without the lastmod field
NoLastmodMeta == MetaLines \o <<"type", ":", " ", "docs">>

\* a link through the internal cross-reference marker
InternalLink ==
    <<"[", "guide", "]", "(", "{{<", " ", "site/baseurl", " ", ">}}", "/guide", ")">>

\* prose with an internal link; prose under a first-level heading; prose
\* of 200 characters in one word
LinkedBody == <<"See", " ">> \o InternalLink \o <<"\n">>
HeadedBody == <<"#", " ", "Intro", "\n", "Body", "\n">>
LongWord == "xxxxxxxxxxxxxxxxxxxxxxxxxxxxxxxxxxxxxxxxxxxxxxxxxxxxxxxxxxxxxxxxxxxxxxxxxxxxxxxxxxxxxxxxxxxxxxxxxxxxxxxxxxxxxxxxxxxxxxxxxxxxxxxxxxxxxxxxxxxxxxxxxxxxxxxxxxxxxxxxxxxxxxxxxxxxxxxxxxxxxxxxxxxxxxxxxxxxxxxx"
LongBody == <<LongWord, "\n">>

\* the documents and the answers the validator is exercised on: every
\* document has one span to rewrite
ValidatorDocs ==
    { Doc(FullMeta, ProseBody),
      Doc(FullMeta, LinkedBody),
      Doc(FullMeta, HeadedBody),
      Doc(FullMeta, LongBody),
      Doc(NoTypeMeta, ProseBody),
      Doc(SubtitleMeta, ProseBody),
      Doc(BadDateMeta, ProseBody),
      Doc(BadLastmodMeta, ProseBody),
      Doc(NoLastmodMeta, ProseBody) }

ValidatorResponses ==
    { <<"Fresh", " ", "words">>,
      <<"See", " ", "[", "more">>,
      <<"[", "a", "]", "(", "u", " ", "[", "b", "]", "(", "v">>,
      <<Fence, "code">>,
      <<"Fresh", "\n", "##", " ", "New">>,
      <<"#", " ", "Other", "\n", "Body">>,
      <<"Read", " ", "[", "more", "]", "(", "url", ")">>,
      <<"Go", " ">> \o InternalLink,
      <<LongWord, " ", LongWord>> }

\* the pieces the bodies of the extraction profile are put together from:
\* a word, the white space, a second-level and a first-level heading marker, a
\* shortcode and a shortcode that is not closed
GistShort == <<"{{<", "gist", ">}}">>
GistOpen == <<"{{<", " ", "gist">>
Pieces == {<<"a">>, <<"\n">>, <<" ">>, <<"##", " ">>, <<"#", " ">>, GistShort, GistOpen}

\* most pieces in a body of the extraction profile
MaxPieces == 3

\* the concatenation of a sequence of texts
RECURSIVE Flatten(_)
Flatten(ps) == IF ps = << >> THEN << >> ELSE Head(ps) \o Flatten(Tail(ps))

\* the closing paragraph repeats the text of the heading
HeadingEchoBody ==
    <<"##", " ", "Summary", "\n">> \o GistA \o <<"\n", "\n", "Summary", "\n">>

\* every body of at most MaxPieces pieces, the bodies of Docs, and one more
Bodies ==
    {Flatten(ps) : ps \in UNION {[1..k -> Pieces] : k \in 0..MaxPieces}}
    \cup {ArticleBody, TwoClosingsBody, EchoBody, HeadingEchoBody}

\* the documents of the extraction profile and the answer of the service
ExtractDocs == {Doc(FullMeta, b) : b \in Bodies}
ExtractResponses == {<<"Fresh", " ", "words">>}

\* choices[0].message.content is absent: callLLM's return value is undefined
Undefined == <<"undefined">>

\* the ways one attempt can fail inside the try block of callLLM:
\* !response.ok, fetch rejecting, response.json() or data.choices[0].message
\* throwing
FailureKinds == {"HTTP 500", "network", "malformed body"}

----------------------------------------------------------------------------
(* State                                                                   *)

\* most articles one run is handed
MaxArticles == 2

\* largest maxRetries callLLM is called with when it is exercised alone
MaxRetriesBound == 5

\* callLLM(messages, maxRetries = 3)
DefaultMaxRetries == 3

VARIABLES
    corpus,          \* the documents the articles of this run may be
    service,         \* the texts the rewrite service may answer in this run
    n,               \* articlePaths.length
    i,               \* processArticles: the loop index, counted from 1
    pc,              \* where control is
    disk,            \* the file of article i, as it is on disk
    backup,          \* the file at backupPath, or NoFile
    before,          \* the file of article i when processArticle(i) was entered
    originalContent, \* processArticle: originalContent
    newContent,      \* processArticle: newContent
    span,            \* which span the rewrite call in progress is for
    closingIndex,    \* processArticle: the closing loop's index, from 1
    changes,         \* processArticle: changes
    calls,           \* the rewrite calls of article i so far: <<role, text>>
    validation,      \* processArticle: validation (what validateFile returned)
    errors,          \* this.validator.errors
    warnings,        \* this.validator.warnings
    thrown,          \* the error the inner try block threw
    returned,        \* what the last processArticle call returned
    processedFiles,  \* this.processedFiles
    maxRetries,      \* callLLM: maxRetries
    attempt,         \* callLLM: attempt
    lastError,       \* callLLM: error.message inside the catch block, else ""
    waits,           \* callLLM: the timeouts slept so far in this call, in ms
    fetches,         \* callLLM: the requests sent so far in this call
    failures,        \* callLLM: how many of them failed
    reply,           \* callLLM: its outcome once it is over
    log              \* what processArticle(i) did so far, in order

vars ==
    <<corpus, service, n, i, pc, disk, backup, before, originalContent, newContent, span,
      closingIndex, changes, calls, validation, errors, warnings, thrown, returned,
      processedFiles, maxRetries, attempt, lastError, waits, fetches, failures, reply,
      log>>

llmVars == <<maxRetries, attempt, lastError, waits, fetches, failures, reply>>
fileVars == <<disk, backup>>
validatorVars == <<validation, errors, warnings>>
localVars == <<originalContent, newContent, span, closingIndex, changes, calls>>
loopVars == <<corpus, service, n, i, before>>

NoFile == <<"ENOENT">>
NoText == << >>
NoError == [msg |-> "", attempts |-> 0, cause |-> ""]
Err(msg) == [msg |-> msg, attempts |-> 0, cause |-> ""]
NoValidation == [valid |-> FALSE, errors |-> << >>, warnings |-> << >>]

\* callLLM has not ended / returned value v / threw error e
Pending == [kind |-> "pending", value |-> NoText, error |-> NoError]
Returned(v) == [kind |-> "return", value |-> v, error |-> NoError]
Threw(e) == [kind |-> "throw", value |-> NoText, error |-> e]

\* processArticle returned null / nothing yet
Null == [status |-> "null"]
NotReturned == [status |-> "running"]

\* Math.pow(2, k)
RECURSIVE Pow2(_)
Pow2(k) == IF k <= 0 THEN 1 ELSE 2 * Pow2(k - 1)

\* the locals processArticle derives from originalContent
frontMatter == FrontMatterOf(originalContent)
content == BodyOf(originalContent)
openingParagraph == extractOpeningParagraph(content)
closingParagraphs == extractClosingParagraphs(content)
newFileContent == Reassemble(frontMatter, newContent)

----------------------------------------------------------------------------
(* LLMRewriter.callLLM                                                     *)

\* rewriteOpeningParagraph / rewriteClosingParagraph: callLLM(messages)
BeginCall(sp) ==
    /\ span' = sp
    /\ maxRetries' = DefaultMaxRetries
    /\ attempt' = 1
    /\ lastError' = ""
    /\ waits' = << >>
    /\ fetches' = 0
    /\ failures' = 0
    /\ reply' = Pending
    /\ pc' = "fetch"

\* the error callLLM throws when the last attempt failed
ExhaustedRetries(m, message) ==
    [msg |-> "LLM API failed after attempts", attempts |-> m, cause |-> message]

\* an attempt whose response is ok and holds choices[0].message.content
FetchOk(r) ==
    /\ pc = "fetch"
    /\ attempt <= maxRetries
    /\ fetches' = fetches + 1
    /\ reply' = Returned(r)
    /\ pc' = "called"
    /\ UNCHANGED <<maxRetries, attempt, lastError, waits, failures>>

\* an attempt whose response is ok, parses, has choices[0].message, and no
\* content in it: line 44 returns data.choices[0].message.content
FetchNoContent ==
    /\ pc = "fetch"
    /\ attempt <= maxRetries
    /\ fetches' = fetches + 1
    /\ reply' = Returned(Undefined)
    /\ pc' = "called"
    /\ UNCHANGED <<maxRetries, attempt, lastError, waits, failures>>

\* a retry decision that gives up one attempt early
FetchFails_OneShort(kind) ==
    /\ pc = "fetch"
    /\ attempt <= maxRetries
    /\ fetches' = fetches + 1
    /\ failures' = failures + 1
    /\ lastError' = kind
    /\ IF attempt >= maxRetries - 1
       THEN /\ reply' = Threw([msg |-> "LLM API failed after attempts",
                               attempts |-> maxRetries, cause |-> kind])
            /\ pc' = "called"
       ELSE /\ reply' = reply
            /\ pc' = "backoff"
    /\ UNCHANGED <<maxRetries, attempt, waits>>

\* an attempt that throws inside the try block: the catch of lines 45-54
\* up to the retry decision
FetchFails(kind) ==
    /\ pc = "fetch"
    /\ attempt <= maxRetries
    /\ fetches' = fetches + 1
    /\ failures' = failures + 1
    /\ lastError' = kind
    /\ IF attempt = maxRetries
       THEN /\ reply' = Threw(ExhaustedRetries(maxRetries, kind))
            /\ pc' = "called"
       ELSE /\ reply' = reply
            /\ pc' = "backoff"
    /\ UNCHANGED <<maxRetries, attempt, waits>>

\* a backoff that starts at one second
BackoffDelay_FromOne(a) == Pow2(a - 1) * 1000

\* line 53, then attempt++ of the for loop
BackoffDelay(a) == Pow2(a) * 1000

Backoff ==
    /\ pc = "backoff"
    /\ waits' = Append(waits, BackoffDelay(attempt))
    /\ attempt' = attempt + 1
    /\ lastError' = ""
    /\ pc' = "fetch"
    /\ UNCHANGED <<maxRetries, fetches, failures, reply>>

\* callLLM is over and its caller has its outcome: its locals are gone
EndCall ==
    /\ maxRetries' = DefaultMaxRetries
    /\ attempt' = 1
    /\ lastError' = ""
    /\ waits' = << >>
    /\ fetches' = 0
    /\ failures' = 0
    /\ reply' = Pending

\* the frame of the four steps of callLLM
CallFrame ==
    UNCHANGED <<loopVars, fileVars, localVars, validatorVars, thrown, returned,
                processedFiles, log>>

----------------------------------------------------------------------------
(* ContentProcessor.processArticle                                         *)

SuccessResult(ch) == [filePath |-> i, changes |-> ch, status |-> "success"]
ErrorResult(e) == [filePath |-> i, error |-> e, status |-> "error"]

\* a processArticle that lets the error out instead of recording it: the
\* promise of processArticles rejects and the run is over
OuterCatch_Rethrows(e) ==
    /\ pc' = "finished"
    /\ UNCHANGED <<returned, processedFiles>>

\* the catch of lines 629-641: the error becomes a result
OuterCatch(e) ==
    /\ processedFiles' = Append(processedFiles, ErrorResult(e))
    /\ returned' = ErrorResult(e)
    /\ pc' = "returned"

\* lines 507-534, fs.readFileSync having succeeded
ReadAndExtract ==
    /\ pc = "loop"
    /\ i <= n
    /\ originalContent' = disk
    /\ IF NoFrontMatter(disk)
       THEN /\ OuterCatch(Err("No front matter found in file"))
            /\ newContent' = newContent
       ELSE IF \/ ~QuotedFieldMatch(FrontMatterOf(disk), "title")
               \/ ~QuotedFieldMatch(FrontMatterOf(disk), "platformkey")
       THEN /\ OuterCatch(Err("Could not extract title or platform from front matter"))
            /\ newContent' = newContent
       ELSE IF /\ extractOpeningParagraph(BodyOf(disk)) = << >>
               /\ Len(extractClosingParagraphs(BodyOf(disk))) = 0
       THEN /\ returned' = Null
            /\ pc' = "returned"
            /\ UNCHANGED <<processedFiles, newContent>>
       ELSE /\ newContent' = BodyOf(disk)
            /\ pc' = "rewrite"
            /\ UNCHANGED <<processedFiles, returned>>
    /\ UNCHANGED <<loopVars, fileVars, span, closingIndex, changes, calls,
                   validatorVars, thrown, llmVars, log>>

\* line 507: fs.readFileSync throws
ReadFails ==
    /\ pc = "loop"
    /\ i <= n
    /\ OuterCatch(Err("readFileSync failed"))
    /\ UNCHANGED <<loopVars, fileVars, localVars, validatorVars, thrown, llmVars, log>>

\* a sequencing that does not rewrite a closing paragraph equal to the
\* opening paragraph
NextCall_Dedup ==
    /\ pc = "rewrite"
    /\ IF span = "none" /\ openingParagraph # << >>
       THEN /\ BeginCall("opening")
            /\ calls' = Append(calls, <<"opening", openingParagraph>>)
            /\ log' = Append(log, "rewrite opening")
            /\ UNCHANGED <<closingIndex, changes>>
       ELSE IF /\ closingIndex < Len(closingParagraphs)
               /\ closingParagraphs[closingIndex + 1] = openingParagraph
       THEN /\ closingIndex' = closingIndex + 1
            /\ UNCHANGED <<pc, span, calls, changes, llmVars, log>>
       ELSE IF closingIndex < Len(closingParagraphs)
       THEN /\ BeginCall("closing")
            /\ closingIndex' = closingIndex + 1
            /\ calls' = Append(calls, <<"closing", closingParagraphs[closingIndex + 1]>>)
            /\ log' = Append(log, "rewrite closing")
            /\ UNCHANGED changes
       ELSE /\ changes' = IF Len(closingParagraphs) > 0
                          THEN Append(changes, "closing paragraphs")
                          ELSE changes
            /\ pc' = "backup"
            /\ UNCHANGED <<span, closingIndex, calls, llmVars, log>>
    /\ UNCHANGED <<loopVars, fileVars, originalContent, newContent, validatorVars,
                   thrown, returned, processedFiles>>

\* lines 539-575 between two rewrite calls: which call comes next
NextCall ==
    /\ pc = "rewrite"
    /\ IF span = "none" /\ openingParagraph # << >>
       THEN /\ BeginCall("opening")
            /\ calls' = Append(calls, <<"opening", openingParagraph>>)
            /\ log' = Append(log, "rewrite opening")
            /\ UNCHANGED <<closingIndex, changes>>
       ELSE IF closingIndex < Len(closingParagraphs)
       THEN /\ BeginCall("closing")
            /\ closingIndex' = closingIndex + 1
            /\ calls' = Append(calls, <<"closing", closingParagraphs[closingIndex + 1]>>)
            /\ log' = Append(log, "rewrite closing")
            /\ UNCHANGED changes
       ELSE /\ changes' = IF Len(closingParagraphs) > 0
                          THEN Append(changes, "closing paragraphs")
                          ELSE changes
            /\ pc' = "backup"
            /\ UNCHANGED <<span, closingIndex, calls, llmVars, log>>
    /\ UNCHANGED <<loopVars, fileVars, originalContent, newContent, validatorVars,
                   thrown, returned, processedFiles>>

\* the text the call in progress rewrites
Paragraph == IF span = "opening" THEN openingParagraph ELSE closingParagraphs[closingIndex]

\* lines 546-551 and 566-571: the rewrite call returned
ApplyRewrite ==
    /\ pc = "called"
    /\ reply.kind = "return"
    /\ IF reply.value = Undefined
       THEN /\ OuterCatch(Err("TypeError: cannot read trim of undefined"))
            /\ UNCHANGED <<newContent, changes, log>>
       ELSE /\ newContent' = ReplaceFirst(newContent, Paragraph, Trim(reply.value))
            /\ changes' = IF span = "opening"
                          THEN Append(changes, "opening paragraph") ELSE changes
            /\ log' = IF span = "opening" \/ closingIndex < Len(closingParagraphs)
                      THEN Append(log, "delay 2000") ELSE log
            /\ pc' = "rewrite"
            /\ UNCHANGED <<returned, processedFiles>>
    /\ EndCall
    /\ UNCHANGED <<loopVars, fileVars, originalContent, span, closingIndex, calls,
                   validatorVars, thrown>>

\* a failed rewrite call that leaves the paragraphs rewritten so far in the file
RewriteThrows_WritesPartial ==
    /\ pc = "called"
    /\ reply.kind = "throw"
    /\ processedFiles' = Append(processedFiles, [filePath |-> i, error |-> reply.error,
                                                 status |-> "error"])
    /\ returned' = [filePath |-> i, error |-> reply.error, status |-> "error"]
    /\ pc' = "returned"
    /\ disk' = newFileContent
    /\ log' = Append(log, "write")
    /\ maxRetries' = DefaultMaxRetries
    /\ attempt' = 1
    /\ lastError' = ""
    /\ waits' = << >>
    /\ fetches' = 0
    /\ failures' = 0
    /\ reply' = Pending
    /\ UNCHANGED <<loopVars, backup, localVars, validatorVars, thrown>>

\* the rewrite call threw: control passes to the catch of line 629
RewriteThrows ==
    /\ pc = "called"
    /\ reply.kind = "throw"
    /\ OuterCatch(reply.error)
    /\ EndCall
    /\ UNCHANGED <<loopVars, fileVars, localVars, validatorVars, thrown, log>>

\* ContentValidator.createBackup (line 584): fs.copyFileSync(filePath, backupPath)
CreateBackup ==
    /\ pc = "backup"
    /\ backup' = disk
    /\ log' = Append(log, "backup")
    /\ pc' = "write"
    /\ UNCHANGED <<loopVars, disk, localVars, validatorVars, thrown, returned,
                   processedFiles, llmVars>>

\* createBackup throws: copyFileSync removes the destination it could not
\* complete, and line 584 stands outside the inner try block
CreateBackupFails ==
    /\ pc = "backup"
    /\ OuterCatch(Err("copyFileSync failed"))
    /\ UNCHANGED <<loopVars, fileVars, localVars, validatorVars, thrown, llmVars, log>>

\* line 588: fs.writeFileSync(absolutePath, newFileContent)
WriteFile ==
    /\ pc = "write"
    /\ disk' = newFileContent
    /\ log' = Append(log, "write")
    /\ pc' = "validate"
    /\ UNCHANGED <<loopVars, backup, localVars, validatorVars, thrown, returned,
                   processedFiles, llmVars>>

\* what a write that throws may leave in the file: nothing of the new
\* text, or the first part of it
PartialWrites(old, new) == {old, Sub(new, 1, (Len(new) \div 2) + 1)}

\* line 588 throws
WriteFails ==
    /\ pc = "write"
    /\ disk' \in PartialWrites(disk, newFileContent)
    /\ thrown' = Err("writeFileSync failed")
    /\ log' = Append(log, "write")
    /\ pc' = "catch"
    /\ UNCHANGED <<loopVars, backup, localVars, validatorVars, returned,
                   processedFiles, llmVars>>

\* a validateFile that does not empty this.errors and this.warnings first
ValidateFile_NoReset ==
    /\ pc = "validate"
    /\ LET v == ValidateContent(disk, originalContent)
       IN  /\ errors' = errors \o v.errors
           /\ warnings' = warnings \o v.warnings
           /\ validation' = [valid |-> errors \o v.errors = << >>,
                             errors |-> errors \o v.errors,
                             warnings |-> warnings \o v.warnings]
           /\ pc' = IF errors \o v.errors = << >> THEN "discard" ELSE "restore"
    /\ log' = Append(log, "validate")
    /\ UNCHANGED <<loopVars, fileVars, localVars, thrown, returned, processedFiles,
                   llmVars>>

\* validateFile (lines 174-206), called at line 591
ValidateFile ==
    /\ pc = "validate"
    /\ LET v == ValidateContent(disk, originalContent)
       IN  /\ validation' = v
           /\ errors' = v.errors
           /\ warnings' = v.warnings
           /\ pc' = IF v.valid THEN "discard" ELSE "restore"
    /\ log' = Append(log, "validate")
    /\ UNCHANGED <<loopVars, fileVars, localVars, thrown, returned, processedFiles,
                   llmVars>>

\* validateFile when its fs.readFileSync throws (lines 199-205): the reset
\* of lines 175-176 has happened
ValidateReadFails ==
    /\ pc = "validate"
    /\ validation' = ValidateReadFailed
    /\ errors' = << >>
    /\ warnings' = << >>
    /\ pc' = "restore"
    /\ log' = Append(log, "validate")
    /\ UNCHANGED <<loopVars, fileVars, localVars, thrown, returned, processedFiles,
                   llmVars>>

\* a restore that removes the backup without copying it back
restoreFromBackup_NoCopy ==
    /\ disk' = disk
    /\ backup' = NoFile

\* a restore that copies the backup back and leaves it in place
restoreFromBackup_NoUnlink ==
    /\ disk' = backup
    /\ backup' = backup

\* ContentValidator.restoreFromBackup (lines 220-223)
restoreFromBackup ==
    /\ disk' = backup
    /\ backup' = NoFile

\* lines 595-596: restore, then throw 'Validation failed: ...'
RestoreInvalid ==
    /\ pc = "restore"
    /\ restoreFromBackup
    /\ thrown' = Err("Validation failed")
    /\ log' = Append(log, "restore")
    /\ pc' = "catch"
    /\ UNCHANGED <<loopVars, localVars, validatorVars, returned, processedFiles,
                   llmVars>>

\* line 595 throws: in copyFileSync (the document is left as it was) or in
\* unlinkSync (the document is restored, the backup file stays)
RestoreInvalidFails ==
    /\ pc = "restore"
    /\ \/ /\ UNCHANGED <<disk, backup>>
          /\ thrown' = Err("copyFileSync failed")
       \/ /\ disk' = backup
          /\ UNCHANGED backup
          /\ thrown' = Err("unlinkSync failed")
    /\ log' = Append(log, "restore")
    /\ pc' = "catch"
    /\ UNCHANGED <<loopVars, localVars, validatorVars, returned, processedFiles,
                   llmVars>>

\* line 600, then lines 615-627: the backup is removed, the result is success
DiscardBackup ==
    /\ pc = "discard"
    /\ backup' = NoFile
    /\ log' = Append(log, "discard")
    /\ processedFiles' = Append(processedFiles, SuccessResult(changes))
    /\ returned' = SuccessResult(changes)
    /\ pc' = "returned"
    /\ UNCHANGED <<loopVars, disk, localVars, validatorVars, thrown, llmVars>>

\* line 600 throws
DiscardFails ==
    /\ pc = "discard"
    /\ thrown' = Err("unlinkSync failed")
    /\ pc' = "catch"
    /\ UNCHANGED <<loopVars, fileVars, localVars, validatorVars, returned,
                   processedFiles, llmVars, log>>

\* the catch of lines 607-613, then the catch of line 629.  The recovery
\* itself is taken to complete: a failure while recovering from a failure
\* is not modelled.
InnerCatch ==
    /\ pc = "catch"
    /\ IF backup # NoFile
       THEN /\ restoreFromBackup
            /\ log' = Append(log, "restore")
       ELSE UNCHANGED <<disk, backup, log>>
    /\ OuterCatch(thrown)
    /\ UNCHANGED <<loopVars, localVars, validatorVars, thrown, llmVars>>

----------------------------------------------------------------------------
(* ContentProcessor.processArticles                                        *)

\* the values the locals of processArticle and callLLM hold between calls
FreshLocals ==
    /\ originalContent' = NoText
    /\ newContent' = NoText
    /\ span' = "none"
    /\ closingIndex' = 0
    /\ changes' = << >>
    /\ calls' = << >>
    /\ thrown' = NoError
    /\ validation' = NoValidation
    /\ maxRetries' = DefaultMaxRetries
    /\ attempt' = 1
    /\ lastError' = ""
    /\ waits' = << >>
    /\ fetches' = 0
    /\ failures' = 0
    /\ reply' = Pending

\* a loop that does not await processArticle: the next article may begin
\* while a request of the current one is in flight
Advance_NoAwait ==
    /\ pc \in {"returned", "fetch"}
    /\ i' = i + 1
    /\ log' = IF i < n THEN <<"delay 3000">> ELSE << >>
    /\ IF i < n
       THEN /\ disk' \in corpus
            /\ before' = disk'
       ELSE UNCHANGED <<disk, before>>
    /\ backup' = NoFile
    /\ FreshLocals
    /\ pc' = "loop"
    /\ UNCHANGED <<corpus, service, n, errors, warnings, returned, processedFiles>>

\* lines 652-659: processArticle returned; the delay of line 657 and i++.
\* The file of the next article comes into view.
Advance ==
    /\ pc = "returned"
    /\ i' = i + 1
    /\ log' = IF i < n THEN <<"delay 3000">> ELSE << >>
    /\ IF i < n
       THEN /\ disk' \in corpus
            /\ before' = disk'
       ELSE UNCHANGED <<disk, before>>
    /\ backup' = NoFile
    /\ FreshLocals
    /\ pc' = "loop"
    /\ UNCHANGED <<corpus, service, n, errors, warnings, returned, processedFiles>>

\* line 661: the loop is over
Finish ==
    /\ pc = "loop"
    /\ i > n
    /\ pc' = "finished"
    /\ UNCHANGED <<loopVars, fileVars, localVars, validatorVars, thrown, returned,
                   processedFiles, llmVars, log>>

\* generateReport (lines 667-690): the report of the results recorded so far
generateReport ==
    LET IsSuccess(f) == f.status = "success"
        IsError(f) == f.status = "error"
    IN  [summary |-> [total |-> Len(processedFiles),
                      successful |-> Len(SelectSeq(processedFiles, IsSuccess)),
                      failed |-> Len(SelectSeq(processedFiles, IsError))],
         files |-> processedFiles]

----------------------------------------------------------------------------
(* Specifications                                                          *)

\* a ContentProcessor was constructed and processArticles(articlePaths) called
Start(docs, replies, counts) ==
    /\ corpus = docs
    /\ service = replies
    /\ n \in counts
    /\ i = 1
    /\ pc = "loop"
    /\ disk \in (IF n = 0 THEN {Doc(FullMeta, ProseBody)} ELSE docs)
    /\ before = disk
    /\ backup = NoFile
    /\ originalContent = NoText
    /\ newContent = NoText
    /\ span = "none"
    /\ closingIndex = 0
    /\ changes = << >>
    /\ calls = << >>
    /\ validation = NoValidation
    /\ errors = << >>
    /\ warnings = << >>
    /\ thrown = NoError
    /\ returned = NotReturned
    /\ processedFiles = << >>
    /\ maxRetries = DefaultMaxRetries
    /\ attempt = 1
    /\ lastError = ""
    /\ waits = << >>
    /\ fetches = 0
    /\ failures = 0
    /\ reply = Pending
    /\ log = << >>

\* processArticles([]) and processArticles([path]), path being any document
Init == Start(Docs, Responses, {0, 1})

CallStep ==
    \/ \E r \in service : FetchOk(r)
    \/ FetchNoContent
    \/ \E kind \in FailureKinds : FetchFails(kind)
    \/ Backoff

Next ==
    \/ CallStep /\ CallFrame
    \/ ReadAndExtract
    \/ ReadFails
    \/ NextCall
    \/ ApplyRewrite
    \/ RewriteThrows
    \/ CreateBackup
    \/ CreateBackupFails
    \/ WriteFile
    \/ WriteFails
    \/ ValidateFile
    \/ ValidateReadFails
    \/ RestoreInvalid
    \/ RestoreInvalidFails
    \/ DiscardBackup
    \/ DiscardFails
    \/ InnerCatch
    \/ Advance
    \/ Finish

Spec == Init /\ [][Next]_vars

\* processArticles(articlePaths) with up to MaxArticles articles
InitRun == Start(RunDocs, RunResponses, 0..MaxArticles)

\* the positions of the run
PcValues ==
    {"loop", "rewrite", "fetch", "backoff", "called", "backup", "write", "validate",
     "restore", "discard", "catch", "returned", "finished"}

\* The single thread of the run takes its next step as long as it has one:
\* every await of processArticles, processArticle and callLLM settles.
\* Every step of Next moves pc and every position but "finished" has a
\* step (NextMovesPc and the absence of deadlock), so the fairness of
\* Next is stated on the move of pc.
Proceed == pc # "finished" /\ pc' \in PcValues /\ pc' # pc

NextMovesPc == [][pc' # pc /\ pc' \in PcValues]_vars

SpecRun == InitRun /\ [][Next]_vars /\ WF_pc(Proceed)

\* processArticles([path]) on the documents and answers that exercise the
\* validator
InitValidate == Start(ValidatorDocs, ValidatorResponses, {0, 1})

SpecValidate == InitValidate /\ [][Next]_vars

\* processArticle([path]) up to the reassembly (lines 507-581) when nothing
\* fails, on every document of the extraction profile
InitExtract == Start(ExtractDocs, ExtractResponses, {1})

NextExtract ==
    \/ ReadAndExtract
    \/ NextCall
    \/ (\E r \in service : FetchOk(r)) /\ CallFrame
    \/ ApplyRewrite

SpecExtract == InitExtract /\ [][NextExtract]_vars

\* callLLM(messages, maxRetries) called on its own
InitLLM ==
    /\ corpus = Docs
    /\ service = Responses
    /\ n = 0
    /\ i = 1
    /\ pc = "fetch"
    /\ disk = Doc(FullMeta, ProseBody)
    /\ before = disk
    /\ backup = NoFile
    /\ originalContent = NoText
    /\ newContent = NoText
    /\ span = "none"
    /\ closingIndex = 0
    /\ changes = << >>
    /\ calls = << >>
    /\ validation = NoValidation
    /\ errors = << >>
    /\ warnings = << >>
    /\ thrown = NoError
    /\ returned = NotReturned
    /\ processedFiles = << >>
    /\ maxRetries \in 1..MaxRetriesBound
    /\ attempt = 1
    /\ lastError = ""
    /\ waits = << >>
    /\ fetches = 0
    /\ failures = 0
    /\ reply = Pending
    /\ log = << >>

NextLLM == CallStep /\ CallFrame

SpecLLM == InitLLM /\ [][NextLLM]_vars

----------------------------------------------------------------------------
(* Properties                                                              *)

\* event e is in the log of the article in progress
InLog(e) == \E j \in 1..Len(log) : log[j] = e

\* the index of the first e in the log; 0 when there is none
Pos(e) == IF InLog(e) THEN CHOOSE j \in 1..Len(log) :
                               log[j] = e /\ \A k \in 1..(j - 1) : log[k] # e
          ELSE 0

\* the validator ran on the candidate and reported no error
FoundValid == InLog("validate") /\ validation.valid

C3_CommitOnValidatorSuccess ==
    (pc = "returned" /\ FoundValid /\ thrown = NoError)
        => /\ backup = NoFile
           /\ disk = newFileContent
           /\ returned.status = "success"
           /\ Len(validation.warnings) > 0
                  => /\ "warnings" \in DOMAIN returned
                     /\ returned.warnings = validation.warnings

\* C4 (shortcode preservation): a candidate that passes validation holds
\* the same gist shortcodes as the original, equal in number and each equal
\* in text to the one at its position.
C4_ShortcodePreservation ==
    /\ pc = "discard" => GistTexts(disk) = GistTexts(originalContent)
    /\ (pc = "returned" /\ returned.status = "success")
           => GistTexts(disk) = GistTexts(before)

\* a rewritten document with a gist in it was accepted
C4_Witness ==
    /\ pc = "returned"
    /\ returned.status = "success"
    /\ Len(GistTexts(before)) > 0
    /\ disk # before

\* no event of the log touches a file
NoFileEvent(l) ==
    \A j \in 1..Len(l) : l[j] \notin {"backup", "write", "restore", "discard"}

\* C5 (exhausted retries): when a rewrite call of a document fails with
\* exhausted retries, the result of the document has status error and
\* carries that failure, and neither a backup nor a candidate was written.
C5_ExhaustedRetriesNoWrite ==
    [][(pc = "called" /\ reply.kind = "throw")
          => /\ pc' = "returned"
             /\ returned'.status = "error"
             /\ returned'.error = reply.error
             /\ processedFiles' = Append(processedFiles, returned')
             /\ disk' = before
             /\ backup' = NoFile
             /\ NoFileEvent(log')]_vars

\* the opening was rewritten, then the call for a closing paragraph failed
\* with exhausted retries, and processArticle returned
C5_Witness ==
    /\ pc = "returned"
    /\ returned.status = "error"
    /\ returned.error.msg = "LLM API failed after attempts"
    /\ returned.error.attempts = DefaultMaxRetries
    /\ closingIndex > 0
    /\ newContent # content

\* every request of the call so far failed
AllFailed == failures = fetches

\* C6 (retry ceiling): callLLM sends at most maxRetries requests; when every
\* one of them fails it does not return normally, and it ends only after
\* exactly maxRetries requests, with an error that carries the message of
\* the last failure.
C6_RetryCeiling ==
    /\ fetches <= maxRetries
    /\ AllFailed => reply.kind # "return"
    /\ (AllFailed /\ pc = "called")
           => /\ reply.kind = "throw"
              /\ fetches = maxRetries
              /\ reply.error.attempts = maxRetries
              /\ lastError \in FailureKinds
              /\ reply.error.cause = lastError

\* callLLM(messages, 4) ended after four failed requests
C6_Witness ==
    /\ pc = "called"
    /\ reply.kind = "throw"
    /\ maxRetries = 4
    /\ fetches = 4
    /\ failures = 4

\* 2^1 + ... + 2^m seconds, in milliseconds
RECURSIVE SumOfPowers(_)
SumOfPowers(m) == IF m <= 0 THEN 0 ELSE SumOfPowers(m - 1) + (2 ^ m) * 1000

\* the sum of the waits of the call
RECURSIVE SumWaits(_)
SumWaits(w) == IF w = << >> THEN 0 ELSE Head(w) + SumWaits(Tail(w))

\* C7 (backoff schedule): the k-th wait of a call lasts 2^k seconds; request
\* k + 1 is sent only after k waits; no wait follows the last request, so a
\* call that exhausts its retries has waited 2^1 + ... + 2^(maxRetries-1)
\* seconds in all.
C7_BackoffSchedule ==
    /\ \A k \in 1..Len(waits) : waits[k] = (2 ^ k) * 1000
    /\ pc = "fetch" => (Len(waits) = attempt - 1 /\ fetches = attempt - 1)
    /\ pc = "backoff" => (Len(waits) = attempt - 1 /\ attempt < maxRetries)
    /\ (pc = "called" /\ reply.kind = "throw")
           => /\ Len(waits) = maxRetries - 1
              /\ SumWaits(waits) = SumOfPowers(maxRetries - 1)

\* callLLM(messages, 4) exhausted its retries after waits of 2, 4 and 8 s
C7_Witness ==
    /\ pc = "called"
    /\ reply.kind = "throw"
    /\ waits = <<2000, 4000, 8000>>

\* C8 (missing content): a response without choices[0].message.content is a
\* failed attempt: callLLM never returns the absent value as its result.
C8_MissingContentIsFailure ==
    (pc = "called" /\ reply.kind = "return") => reply.value # Undefined

\* the results recorded so far are those of distinct articles already
\* begun, in the order of the list
ResultsInOrder ==
    /\ \A a \in 1..Len(processedFiles) : processedFiles[a].filePath <= i
    /\ \A a, b \in 1..Len(processedFiles) :
           a < b => processedFiles[a].filePath < processedFiles[b].filePath

\* C9 (failure isolation and order): articles are processed one at a time
\* in the order of the list; whatever the outcome of article j, every error
\* of it becomes a result and article j + 1 is still processed, and the run
\* comes to its end.
C9_FailureIsolationAndOrder ==
    /\ [][i' \in {i, i + 1}]_vars
    /\ []ResultsInOrder
    /\ []((pc = "returned" /\ returned.status = "error")
             => processedFiles[Len(processedFiles)] = returned)
    /\ \A j \in 1..MaxArticles :
           (i = j /\ j < n) ~> (i = j + 1 /\ pc = "returned")
    /\ <>(pc = "finished")

\* the second article was processed after the first one failed
C9_Witness ==
    /\ i = 2
    /\ pc = "returned"
    /\ Len(processedFiles) > 0
    /\ processedFiles[1].filePath = 1
    /\ processedFiles[1].status = "error"

\* a rewrite call of the article in progress was issued
RewriteStarted == InLog("rewrite opening") \/ InLog("rewrite closing")

\* the candidate is the file, the result is success, no backup is left
Committed ==
    /\ returned.status = "success"
    /\ disk = newFileContent
    /\ backup = NoFile

\* the file is what it was, the result is error, no backup is left
RolledBack ==
    /\ returned.status = "error"
    /\ disk = before
    /\ backup = NoFile

\* in the log of an article the backup comes before the write and the
\* write before the validation
BackupWriteValidate ==
    /\ InLog("write") => (InLog("backup") /\ Pos("backup") < Pos("write"))
    /\ InLog("validate") => (InLog("write") /\ Pos("write") < Pos("validate"))

HasField(fm, name) ==
    \E k \in 1..(Len(fm) - 1) :
        /\ fm[k] = name
        /\ fm[k + 1] = ":"
        /\ (k = 1 \/ fm[k - 1] = "\n")

\* the document parses, names its title and platform, and has neither an
\* opening paragraph nor closing paragraphs
NothingToRewrite(text) ==
    /\ ~NoFrontMatter(text)
    /\ QuotedFieldMatch(FrontMatterOf(text), "title")
    /\ QuotedFieldMatch(FrontMatterOf(text), "platformkey")
    /\ extractOpeningParagraph(BodyOf(text)) = << >>
    /\ extractClosingParagraphs(BodyOf(text)) = << >>

\* C11 (skip): a document that was read and has an empty opening and no
\* closing paragraph is skipped: no rewrite call, no write, and it is
\* recorded with status success and no changes.
C11_SkipRecordedAsSuccess ==
    (pc = "returned" /\ originalContent = before /\ NothingToRewrite(before))
        => /\ log = << >>
           /\ disk = before
           /\ backup = NoFile
           /\ returned.status = "success"
           /\ returned.changes = << >>
           /\ Len(processedFiles) > 0
           /\ processedFiles[Len(processedFiles)] = returned

\* the front-matter delimiters are not found, or the front matter has no
\* title field or no platformkey field
Unidentified(text) ==
    \/ NoFrontMatter(text)
    \/ ~HasField(FrontMatterOf(text), "title")
    \/ ~HasField(FrontMatterOf(text), "platformkey")

\* C12 (malformed document, missing metadata): a document without the
\* front-matter delimiters, or without a title or a platformkey field, gets
\* a result with status error, with no rewrite call, no backup and no write.
C12_UnidentifiedIsError ==
    (i <= n /\ Unidentified(before))
        => /\ log = << >>
           /\ disk = before
           /\ backup = NoFile
           /\ pc \in {"loop", "returned"}
           /\ pc = "returned"
                  => /\ returned.status = "error"
                     /\ processedFiles = <<returned>>

\* ps as calls of the given role, in order
RECURSIVE AsCalls(_, _)
AsCalls(role, ps) ==
    IF ps = << >> THEN << >> ELSE <<(<<role, Head(ps)>>)>> \o AsCalls(role, Tail(ps))

\* the calls a document is due: one for a non-empty opening, then one for
\* each closing paragraph in the order of extraction
DueCalls(text) ==
    IF NoFrontMatter(text) THEN << >>
    ELSE AsCalls("opening", IF extractOpeningParagraph(BodyOf(text)) = << >>
                            THEN << >>
                            ELSE <<extractOpeningParagraph(BodyOf(text))>>)
         \o AsCalls("closing", extractClosingParagraphs(BodyOf(text)))

\* s is the beginning of t
IsPrefix(s, t) == Len(s) <= Len(t) /\ SubSeq(t, 1, Len(s)) = s

\* the number of rewrite calls in the log
RECURSIVE RewriteEvents(_)
RewriteEvents(l) ==
    IF l = << >> THEN 0
    ELSE (IF Head(l) \in {"rewrite opening", "rewrite closing"} THEN 1 ELSE 0)
         + RewriteEvents(Tail(l))

\* C13 (one call per span): the rewrite calls of a document are issued one
\* after the other, the opening first if it is not empty, then the closing
\* paragraphs in the order of extraction; when all of them succeeded each
\* span was the subject of exactly one call, a closing paragraph equal to
\* the opening included.
C13_OneCallPerSpan ==
    /\ IsPrefix(calls, DueCalls(before))
    /\ RewriteEvents(log) = Len(calls)
    /\ pc \in {"fetch", "backoff", "called"}
           => (calls # << >> /\ calls[Len(calls)] = <<span, Paragraph>>)
    /\ pc = "backup" => calls = DueCalls(before)

\* both calls of a document whose closing paragraph repeats its opening
\* succeeded
C13_Witness ==
    /\ pc = "backup"
    /\ Len(calls) = 2
    /\ calls[1][1] = "opening"
    /\ calls[2][1] = "closing"
    /\ calls[1][2] = calls[2][2]

\* the log events of the two kinds of rewrite call
RewriteCalls == {"rewrite opening", "rewrite closing"}

\* C14 (delay between calls): within a document a rewrite call is followed
\* by the delay of 2000 ms exactly when another rewrite call follows it: no
\* call is issued straight after another, and no delay is taken after the
\* last call of the document.
C14_DelayBetweenCallsOnly ==
    \A j \in 1..(Len(log) - 1) :
        /\ log[j] \in RewriteCalls => log[j + 1] \notin RewriteCalls
        /\ log[j] = "delay 2000" => log[j + 1] \in RewriteCalls

\* validateFile has just examined the candidate, which is the file
Validated == pc \in {"restore", "discard"} /\ validation # ValidateReadFailed

\* a finding with message msg is among fs
HasFinding(fs, msg) == \E j \in 1..Len(fs) : fs[j][1] = msg

\* processArticle returned after the candidate was validated
ReturnedValidated == pc = "returned" /\ InLog("validate")

\* the text has as many "[" as "]"
SquareBracketsMatch(text) == Count(text, "[") = Count(text, "]")

\* C15 as stated (bracket parity is advisory): a candidate whose only
\* defect is unequal numbers of "[" and "]", or unbalanced link
\* parentheses, gets a warning and no error, and is not rejected.
C15_BracketParityAdvisory ==
    (/\ Validated
     /\ ~SquareBracketsMatch(disk) \/ MarkdownWarnings(disk) # << >>
     /\ \A j \in 1..Len(validation.errors) :
            validation.errors[j][1] = "Unmatched square brackets")
        => (validation.valid /\ validation.warnings # << >>)

\* C15 amended: unequal numbers of "[" and "]" are an error, and the
\* candidate is rejected and rolled back; the check of the link parentheses
\* yields a warning and never an error.
C15_SquareBracketsFatal ==
    /\ (Validated /\ ~SquareBracketsMatch(disk))
           => /\ ~validation.valid
              /\ HasFinding(validation.errors, "Unmatched square brackets")
    /\ (ReturnedValidated /\ ~SquareBracketsMatch(newFileContent))
           => (returned.status = "error" /\ disk = before)
    /\ Validated
           => /\ ~HasFinding(validation.errors, "Potential unmatched parentheses in links")
              /\ MarkdownWarnings(disk) # << >>
                     => HasFinding(validation.warnings,
                                   "Potential unmatched parentheses in links")

\* a candidate whose only defect is an unclosed "[" was rejected
C15_Witness ==
    /\ pc = "restore"
    /\ validation.errors = <<(<<"Unmatched square brackets", "">>)>>
    /\ SquareBracketsMatch(originalContent)
    /\ ~SquareBracketsMatch(disk)

\* the text holds an odd number of code-fence markers
OddFences(text) == Count(text, Fence) % 2 = 1

\* C16 (odd code fences): a candidate with an odd number of code-fence
\* markers is rejected: the validator reports an error and the document is
\* rolled back.
C16_OddFencesRejected ==
    /\ (Validated /\ OddFences(disk))
           => /\ ~validation.valid
              /\ HasFinding(validation.errors, "Unmatched code block markers")
    /\ (ReturnedValidated /\ OddFences(newFileContent))
           => (returned.status = "error" /\ disk = before /\ backup = NoFile)

\* a candidate with one code-fence marker was rejected and rolled back
C16_Witness ==
    /\ ReturnedValidated
    /\ OddFences(newFileContent)
    /\ ~OddFences(before)
    /\ validation.errors = <<(<<"Unmatched code block markers", "">>)>>
    /\ disk = before

\* the front matter fm has a field name whose value is not a date written
\* YYYY-MM-DD
MalformedDate(fm, name) ==
    \E k \in 1..(Len(fm) - 1) :
        /\ fm[k] = name
        /\ fm[k + 1] = ":"
        /\ (k = 1 \/ fm[k - 1] = "\n")
        /\ LET d == SkipWs(fm, k + 2) IN d > Len(fm) \/ ~IsDate(fm[d])

\* C17 (date validation is fatal): a candidate whose date or lastmod is not
\* written YYYY-MM-DD makes the validator report an error.
C17_MalformedDateRejected ==
    (/\ Validated
     /\ ~NoFrontMatter(disk)
     /\ \E f \in {"date", "lastmod"} : MalformedDate(FrontMatterOf(disk), f))
        => ~validation.valid

\* C18 (required fields): a candidate without a front-matter block, or whose
\* front matter lacks one of the required fields, makes the validator report
\* an error; an accepted candidate has every required field as a field of
\* its front matter.
C18_RequiredFieldsPresent ==
    Validated
        => /\ NoFrontMatter(disk) => ~validation.valid
           /\ validation.valid
                  => \A j \in 1..Len(requiredFields) :
                         HasField(FrontMatterOf(disk), requiredFields[j])

AdvisoryMessages ==
    {"Heading count changed", "Heading changed", "Link count changed",
     "Content significantly shortened", "Content significantly lengthened"}

\* the candidate passes every check other than the advisory ones
NoFatalDefect(candidate, original) ==
    /\ validateFrontMatter(candidate) = << >>
    /\ MarkdownIssues(candidate) = << >>
    /\ validateGistPreservation(original, candidate) = << >>
    /\ LinkErrors(original, candidate) = << >>

\* C20 (advisory checks): a changed number of headings, a changed heading
\* text, a changed number of links and a length ratio below 0.5 or above 2.0
\* each add a warning and never an error: a candidate with no other defect
\* is accepted.
C20_AdvisoryChecksNeverReject ==
    Validated
        => /\ \A j \in 1..Len(validation.errors) :
                  validation.errors[j][1] \notin AdvisoryMessages
           /\ NoFatalDefect(disk, originalContent) => validation.valid
           /\ Len(HeadingTexts(disk, 1)) # Len(HeadingTexts(originalContent, 1))
                  => HasFinding(validation.warnings, "Heading count changed")
           /\ (\E k \in 1..Min(Len(HeadingTexts(disk, 1)),
                               Len(HeadingTexts(originalContent, 1))) :
                   HeadingTexts(disk, 1)[k] # HeadingTexts(originalContent, 1)[k])
                  => HasFinding(validation.warnings, "Heading changed")
           /\ LinkCount(disk, 1) # LinkCount(originalContent, 1)
                  => HasFinding(validation.warnings, "Link count changed")
           /\ 2 * CharLen(disk) < CharLen(originalContent)
                  => HasFinding(validation.warnings, "Content significantly shortened")
           /\ CharLen(disk) > 2 * CharLen(originalContent)
                  => HasFinding(validation.warnings, "Content significantly lengthened")

\* a candidate whose number of links differs from the original's was
\* accepted with the warning and stays in the file
C20_Witness ==
    /\ pc = "returned"
    /\ returned.status = "success"
    /\ disk = newFileContent
    /\ HasFinding(validation.warnings, "Link count changed")

\* the lines of a text (split on "\n")
RECURSIVE Lines(_)
Lines(s) ==
    LET e == Find(s, "\n", 1)
    IN  IF e = 0 THEN <<s>>
        ELSE <<Sub(s, 1, e)>> \o Lines(Sub(s, e + 1, Len(s) + 1))

\* a heading line of any level: hashes, then white space
IsHeadingLine(l) == Len(l) >= 2 /\ IsHashes(l[1]) /\ IsWs(l[2])

\* the heading lines of a text, in order
HeadingLines(text) == SelectSeq(Lines(text), IsHeadingLine)

\* the links [text](target) of a text from index from on, in order
RECURSIVE Links(_, _)
Links(s, from) ==
    LET p == Find(s, "[", from)
    IN  IF p = 0 THEN << >>
        ELSE LET q == Find(s, "]", p + 1)
                 r == IF q = 0 THEN 0 ELSE Find(s, ")", q + 2)
             IN  IF q # 0 /\ q + 1 <= Len(s) /\ s[q + 1] = "(" /\ r > q + 2
                 THEN <<Sub(s, p, r + 1)>> \o Links(s, r + 1)
                 ELSE Links(s, p + 1)

\* a line of the front matter that is not the lastmod field
NotLastmodLine(l) == ~(Len(l) >= 2 /\ l[1] = "lastmod" /\ l[2] = ":")

\* the front-matter fields of a document other than lastmod
OtherFields(text) == SelectSeq(Lines(FrontMatterOf(text)), NotLastmodLine)

\* processArticle returned a success result: the candidate stays in the file
CommittedDocument == pc = "returned" /\ returned.status = "success"

\* C21 (structure survives): in every committed document the heading
\* lines, the shortcodes and the links are those of the original, in the
\* same order, and every front-matter field other than lastmod is unchanged.
C21_StructureSurvives ==
    CommittedDocument
        => /\ HeadingLines(BodyOf(disk)) = HeadingLines(BodyOf(before))
           /\ GistTexts(disk) = GistTexts(before)
           /\ Links(disk, 1) = Links(before, 1)
           /\ OtherFields(disk) = OtherFields(before)

\* the body of the document read by processArticle
BodyRead == originalContent # NoText /\ ~NoFrontMatter(originalContent)

\* a line beginning with the second-level heading marker starts at index j
SecondLevelHeadingAt(b, j) ==
    /\ j >= 1 /\ j + 1 <= Len(b)
    /\ b[j] = "##" /\ b[j + 1] = " "
    /\ (j = 1 \/ b[j - 1] = "\n")

\* the indices at which the opening must end: the starts of the second-level
\* heading lines and of the shortcodes
OpeningStops(b) ==
    {j \in 1..Len(b) : SecondLevelHeadingAt(b, j) \/ GistOpensAt(b, j)}

\* the smallest of them, or the end of the body when there is none
OpeningEnd(b) ==
    IF OpeningStops(b) = {} THEN Len(b) + 1
    ELSE CHOOSE j \in OpeningStops(b) : \A k \in OpeningStops(b) : j <= k

IsBlankLine(l) == \A j \in 1..Len(l) : IsWs(l[j])

\* the maximal runs of non-blank lines of ls, each joined by "\n"; cur is
\* the run being gathered
RECURSIVE LineRuns(_, _)
LineRuns(ls, cur) ==
    IF ls = << >> THEN (IF cur = << >> THEN << >> ELSE <<cur>>)
    ELSE IF IsBlankLine(Head(ls))
         THEN (IF cur = << >> THEN << >> ELSE <<cur>>) \o LineRuns(Tail(ls), << >>)
         ELSE LineRuns(Tail(ls),
                       IF cur = << >> THEN Head(ls) ELSE cur \o <<"\n">> \o Head(ls))

\* the trimmed paragraphs of a text, in order
TrimmedParagraphs(text) ==
    LET rs == LineRuns(Lines(text), << >>)
    IN  [k \in 1..Len(rs) |-> Trim(rs[k])]

\* the paragraph is not a heading
NotHeading(p) == ~IsHeadingLine(p)

\* the text after the end of the last shortcode of the body
AfterLastShortcode(b) ==
    Sub(b, GistSpans(b, 1)[Len(GistSpans(b, 1))][2], Len(b) + 1)

\* the closing calls made so far, as the texts sent
ClosingsSent ==
    LET IsClosing(c) == c[1] = "closing"
        cs == SelectSeq(calls, IsClosing)
    IN  [k \in 1..Len(cs) |-> cs[k][2]]

\* C23 (closing extraction): a body without a shortcode has no closing
\* paragraph; otherwise the closing paragraphs are, in document order, the
\* trimmed non-empty paragraphs of the text after the last shortcode that do
\* not begin with a heading marker.  The closing paragraphs sent to the
\* service are these, in this order.
C23_ClosingExtraction ==
    BodyRead
        => /\ GistSpans(content, 1) = << >> => closingParagraphs = << >>
           /\ GistSpans(content, 1) # << >>
                  => closingParagraphs
                         = SelectSeq(TrimmedParagraphs(AfterLastShortcode(content)),
                                     NotHeading)
           /\ IsPrefix(ClosingsSent, closingParagraphs)
           /\ pc = "backup" => ClosingsSent = closingParagraphs

\* shortcode, paragraph, blank line, paragraph: both were sent, in order
C23_Witness ==
    /\ BodyRead
    /\ pc = "backup"
    /\ Len(ClosingsSent) = 2
    /\ ClosingsSent[1] # ClosingsSent[2]
    /\ ClosingsSent = TrimmedParagraphs(AfterLastShortcode(content))

\* the text holds a heading line of some level
HoldsHeadingLine(text) == HeadingLines(text) # << >>

\* no shortcode of the body begins before the end of the opening, and the
\* opening holds no shortcode
OpeningClearOfShortcodes(b) ==
    /\ \A k \in 1..Len(GistSpans(b, 1)) : GistSpans(b, 1)[k][1] >= OpeningEnd(b)
    /\ GistSpans(extractOpeningParagraph(b), 1) = << >>

\* every closing paragraph lies after the end of the last shortcode, and
\* holds no shortcode
ClosingsClearOfShortcodes(b) ==
    \A k \in 1..Len(extractClosingParagraphs(b)) :
        /\ Includes(AfterLastShortcode(b), extractClosingParagraphs(b)[k])
        /\ GistSpans(extractClosingParagraphs(b)[k], 1) = << >>

\* C24 (span invariant): neither the opening nor a closing paragraph holds
\* a heading line of any level or a part of a shortcode.
C24_SpansHoldNoStructure ==
    BodyRead
        => /\ ~HoldsHeadingLine(openingParagraph)
           /\ OpeningClearOfShortcodes(content)
           /\ \A k \in 1..Len(closingParagraphs) : ~HoldsHeadingLine(closingParagraphs[k])
           /\ ClosingsClearOfShortcodes(content)

\* C25 (run report): after a run over n documents the report holds one
\* result per document, in the order of the list, total is n, and
\* successful + failed = total.
C25_ReportCoversEveryDocument ==
    pc = "finished"
        => /\ Len(generateReport.files) = n
           /\ \A k \in 1..Len(generateReport.files) : generateReport.files[k].filePath = k
           /\ generateReport.summary.total = n
           /\ generateReport.summary.successful + generateReport.summary.failed
                  = generateReport.summary.total

\* the reassembly of lines 578-581 was computed: newFileContent is the candidate
Reassembled == pc \in {"backup", "write", "validate", "restore", "discard"}

\* the lines of the front matter of a document that are the field name
FieldLines(text, name) ==
    LET IsField(l) == Len(l) >= 2 /\ l[1] = name /\ l[2] = ":"
    IN  SelectSeq(Lines(FrontMatterOf(text)), IsField)

\* the line 'lastmod: <current date>'
LastmodToday == <<"lastmod", ":", " ", Today>>

\* the line after the date field of the document is 'lastmod: <current date>'
LastmodFollowsDate(text) ==
    LET ls == Lines(FrontMatterOf(text))
    IN  \E k \in 1..(Len(ls) - 1) :
            /\ Len(ls[k]) >= 2 /\ ls[k][1] = "date" /\ ls[k][2] = ":"
            /\ ls[k + 1] = LastmodToday

\* C26 (lastmod): in every candidate the lastmod field holds the current
\* date: an existing value is replaced by it, and when the field is absent the
\* line is inserted right after the date field.
C26_LastmodIsCurrentDate ==
    Reassembled
        => /\ FieldLines(newFileContent, "lastmod") = <<LastmodToday>>
           /\ FieldLines(originalContent, "lastmod") = << >>
                  => LastmodFollowsDate(newFileContent)

\* C27 (no leak of validator state): what validateFile returns, and what
\* the validator holds afterwards, are the findings about the pair of this
\* call only, whatever was validated before: the candidate is accepted iff a
\* fresh validator accepts it.
C27_ValidatorStateReset ==
    pc \in {"restore", "discard"}
        => \/ /\ validation = ValidateReadFailed
              /\ errors = << >>
              /\ warnings = << >>
           \/ /\ validation = ValidateContent(disk, originalContent)
              /\ errors = validation.errors
              /\ warnings = validation.warnings
              /\ (pc = "discard") = ValidateContent(disk, originalContent).valid

\* the second article was accepted after the first one was rejected by the
\* validator, whose errors were still held when the second call began
C27_Witness ==
    /\ i = 2
    /\ pc = "discard"
    /\ validation.valid
    /\ Len(processedFiles) = 1
    /\ processedFiles[1].status = "error"
    /\ processedFiles[1].error.msg = "Validation failed"

\* the indices of a text that hold no white space
NonWs(t) == {j \in 1..Len(t) : ~IsWs(t[j])}

\* no blank line lies between the indices j and k of t: no two newlines
\* with only white space between them
NoBlankLine(t, j, k) ==
    ~\E x, y \in j..k :
         /\ x < y
         /\ t[x] = "\n" /\ t[y] = "\n"
         /\ \A z \in x..y : IsWs(t[z])

\* the paragraphs of t as <<first index, index after the last>>: the
\* maximal stretches without a blank line that begin and end with a lexeme
\* that is no white space
ParagraphSpans(t) ==
    {<<s, e + 1>> : <<s, e>> \in
        {<<s, e>> \in NonWs(t) \X NonWs(t) :
            /\ s <= e
            /\ NoBlankLine(t, s, e)
            /\ \A j \in NonWs(t) : j < s => ~NoBlankLine(t, j, e)
            /\ \A j \in NonWs(t) : j > e => ~NoBlankLine(t, s, j)}}

\* index of the end of the last shortcode of the body (the index after its
\* closing token); 1 when the body has no shortcode
LastShortcodeEnd(b) ==
    IF GistSpans(b, 1) = << >> THEN 1 ELSE GistSpans(b, 1)[Len(GistSpans(b, 1))][2]

\* the opening span of the body, in a set: from the first lexeme that is
\* no white space to the last one before OpeningEnd
OpeningSpans(b) ==
    LET a == SkipWs(b, 1)
        z == SkipWsBack(b, OpeningEnd(b) - 1)
    IN  IF a <= z THEN {<<a, z + 1>>} ELSE {}

\* the closing spans of the body: the paragraphs after the last shortcode
\* that do not begin with a heading marker
ClosingSpans(b) ==
    IF GistSpans(b, 1) = << >> THEN {}
    ELSE LET L == LastShortcodeEnd(b)
             t == Sub(b, L, Len(b) + 1)
         IN  {<<sp[1] + L - 1, sp[2] + L - 1>> : sp \in
                 {sp \in ParagraphSpans(t) : ~IsHeadingLine(Sub(t, sp[1], sp[2]))}}

\* the spans of a set in the order of their first index, from index from on
RECURSIVE InOrder(_, _)
InOrder(spans, from) ==
    LET rest == {sp \in spans : sp[1] >= from}
    IN  IF rest = {} THEN << >>
        ELSE LET sp == CHOOSE sp \in rest : \A o \in rest : sp[1] <= o[1]
             IN  <<sp>> \o InOrder(spans, sp[1] + 1)

\* the texts the spans denote
SpanTexts(b, sps) == [k \in 1..Len(sps) |-> Sub(b, sps[k][1], sps[k][2])]

\* the body from index from on, with the text of span sps[k] replaced by
\* rs[k], for every k
RECURSIVE WithSpansReplaced(_, _, _, _)
WithSpansReplaced(b, sps, from, rs) ==
    IF sps = << >> THEN Sub(b, from, Len(b) + 1)
    ELSE Sub(b, from, Head(sps)[1]) \o Head(rs)
         \o WithSpansReplaced(b, Tail(sps), Head(sps)[2], Tail(rs))

\* the editable spans of the body, in order
EditableSpans(b) == InOrder(OpeningSpans(b) \cup ClosingSpans(b), 1)

\* the texts the service may have given, trimmed as lines 547 and 567 do
Rewrites == {Trim(r) : r \in service}

\* C28 (reassembly changes the spans only): once every span is rewritten the
\* candidate body is the original body with each span's text replaced, where
\* it stands, by a rewritten text; the text outside the spans is unchanged,
\* also when the text of a span occurs elsewhere in the body.
C28_OnlySpansChange ==
    (pc = "backup" /\ BodyRead)
        => \E rs \in [1..Len(EditableSpans(content)) -> Rewrites] :
               newContent = WithSpansReplaced(content, EditableSpans(content), 1, rs)

\* the two spans share no index of the body
Disjoint(sp, sq) == sp[2] <= sq[1] \/ sq[2] <= sp[1]

\* C29 (opening and closing spans are disjoint): the opening extracted is
\* the text of the opening span, which ends at or before the start of the
\* first shortcode; the closing paragraphs extracted are the texts of the
\* closing spans, which begin at or after the end of the last shortcode; so
\* no index of the body belongs to the opening and to a closing span.
C29_OpeningAndClosingDisjoint ==
    BodyRead
        => /\ SpanTexts(content, InOrder(OpeningSpans(content), 1))
                  = (IF openingParagraph = << >> THEN << >> ELSE <<openingParagraph>>)
           /\ SpanTexts(content, InOrder(ClosingSpans(content), 1)) = closingParagraphs
           /\ \A sp \in OpeningSpans(content) :
                  /\ FirstGistOpen(content, 1) # 0 => sp[2] <= FirstGistOpen(content, 1)
                  /\ \A k \in 1..Len(GistSpans(content, 1)) :
                         sp[2] <= GistSpans(content, 1)[k][1]
           /\ \A sq \in ClosingSpans(content) : sq[1] >= LastShortcodeEnd(content)
           /\ \A sp \in OpeningSpans(content) :
                  \A sq \in ClosingSpans(content) : Disjoint(sp, sq)

\* a body with an opening before its shortcode and a closing paragraph after it
C29_Witness ==
    /\ BodyRead
    /\ openingParagraph # << >>
    /\ Len(closingParagraphs) > 0
    /\ OpeningSpans(content) # {}
    /\ ClosingSpans(content) # {}
    /\ pc = "backup"

====
